---- MODULE Spec2Model ----
(***************************************************************************)
(* Model of src/main.rs: a poller for a USB weather station.  main opens   *)
(* the device by vendor/product id, read_device resets it and prints its   *)
(* strings, find_readable_endpoint resolves the first inbound endpoint,    *)
(* read_endpoint detaches the kernel driver, configures the endpoint and   *)
(* polls two reports with control transfers, decoding report one.          *)
(***************************************************************************)
EXTENDS Integers, Sequences, FiniteSets, TLC

(* ------------------------------------------------------------------ *)
(* Program constants                                                    *)
(* ------------------------------------------------------------------ *)
VID == 9408
PID == 3
VEC_CAPACITY == 256
REPORT_ONE_PERIOD == 10
REPORT_TWO_PERIOD == 30

(* ------------------------------------------------------------------ *)
(* Bounds of the model                                                  *)
(* ------------------------------------------------------------------ *)
MaxTick == 31
MaxStartTick == 1
MaxDevices == 2
MaxConfigs == 2
MaxIfaces == 2
MaxSettings == 2
MaxEndpoints == 2

\* Option values: None, or Some(x)
None == <<>>
Some(x) == <<x>>
Unwrap(o) == o[1]
Uninit == "Uninit"

(* ------------------------------------------------------------------ *)
(* u8 arithmetic                                                        *)
(* ------------------------------------------------------------------ *)
RECURSIVE BitAnd(_, _)
BitAnd(a, b) ==
  IF a = 0 \/ b = 0 THEN 0
  ELSE (a % 2) * (b % 2) + 2 * BitAnd(a \div 2, b \div 2)

RECURSIVE BitOr(_, _)
BitOr(a, b) ==
  IF a = 0 THEN b
  ELSE IF b = 0 THEN a
  ELSE (IF a % 2 = 1 \/ b % 2 = 1 THEN 1 ELSE 0) + 2 * BitOr(a \div 2, b \div 2)

\* u8 << k: bits shifted out of the byte are lost (k < 8, so no overflow check)
Shl8(a, k) == (a * (2 ^ k)) % 256
Shr8(a, k) == a \div (2 ^ k)

(* ------------------------------------------------------------------ *)
(* Report decoder (the body of the Ok(len) arm of the report-one read)  *)
(* ------------------------------------------------------------------ *)
\* vec[i] on a Vec whose length was set to len: a checked index
InBounds(len, i) == i < len

Discriminant_mask7(vec) == BitAnd(vec[3], 7)
Discriminant(vec) == BitAnd(vec[3], 15)

WindRaw_shr4(vec) ==
  BitOr(Shl8(BitAnd(vec[4], 31), 3), Shr8(BitAnd(vec[5], 112), 4))

WindRaw(vec) ==
  BitOr(Shl8(BitAnd(vec[4], 31), 3), Shr8(BitAnd(vec[5], 112), 7))

\* (a variant that shifts the low nibble of byte 5 by 3)
TempRaw_shr3(vec) ==
  BitOr(Shr8(BitAnd(vec[5], 15), 3), BitAnd(vec[6], 127))

TempRaw_mask255(vec) ==
  BitOr(Shr8(BitAnd(vec[5], 15), 7), BitAnd(vec[6], 255))

TempRaw(vec) ==
  BitOr(Shr8(BitAnd(vec[5], 15), 7), BitAnd(vec[6], 127))

\* wind_speed = raw as f32 * 0.62, kept in hundredths.  For every raw value
\* the f32 product is the f32 nearest to raw * 62 / 100, so the printed
\* decimal is exactly raw * 62 hundredths.
WindSpeedX100(raw) == raw * 62

\* temp = (raw as f32 - 400.00) / 10.0, kept in tenths
TempX10(raw) == raw - 400

WindRainReport(vec) ==
  [kind |-> "wind_rain",
   wind_raw |-> WindRaw(vec),
   wind_speed_x100 |-> WindSpeedX100(WindRaw(vec)),
   wind_dir |-> BitAnd(vec[5], 15),
   rain_count |-> BitAnd(vec[7], 127)]

WindTempReport(vec) ==
  [kind |-> "wind_temp_humidity",
   wind_raw |-> WindRaw(vec),
   wind_speed_x100 |-> WindSpeedX100(WindRaw(vec)),
   temp_raw |-> TempRaw(vec),
   temp_x10 |-> TempX10(TempRaw(vec)),
   humidity |-> BitAnd(vec[7], 127)]

\* The highest index each block of the decoder reads
DiscriminantIndex == 3
LastFieldIndex == 7

\* Decoding of a report-one buffer of logical length len.  An index at or
\* beyond len panics; a block prints only after all its fields were read.
DecodeReportOne(vec, len) ==
  IF ~InBounds(len, DiscriminantIndex)
    THEN [panic |-> TRUE, reports |-> <<>>]
  ELSE IF Discriminant(vec) = 1
    THEN IF InBounds(len, LastFieldIndex)
           THEN [panic |-> FALSE, reports |-> <<WindRainReport(vec)>>]
           ELSE [panic |-> TRUE, reports |-> <<>>]
  ELSE IF Discriminant(vec) = 8
    THEN IF InBounds(len, LastFieldIndex)
           THEN [panic |-> FALSE, reports |-> <<WindTempReport(vec)>>]
           ELSE [panic |-> TRUE, reports |-> <<>>]
  ELSE [panic |-> FALSE, reports |-> <<>>]

(* ------------------------------------------------------------------ *)
(* Polling schedule                                                     *)
(* ------------------------------------------------------------------ *)
ReportOneDue(c) == c % REPORT_ONE_PERIOD = 0
ReportTwoDue_every20(c) == c % 20 = 0
ReportTwoDue(c) == c % REPORT_TWO_PERIOD = 0

(* ------------------------------------------------------------------ *)
(* Endpoint resolver                                                    *)
(* ------------------------------------------------------------------ *)
\* libusb: the direction of an endpoint is bit 7 of its address
Direction(address) == IF BitAnd(address, 128) # 0 THEN "In" ELSE "Out"

RECURSIVE ScanEndpoints(_, _)
ScanEndpoints(eps, e) ==
  IF e > Len(eps) THEN None
  ELSE IF Direction(eps[e]) = "In" THEN Some(eps[e])
  ELSE ScanEndpoints(eps, e + 1)

RECURSIVE ScanSettings(_, _, _)
ScanSettings(cfg, descs, s) ==
  IF s > Len(descs) THEN None
  ELSE LET a == ScanEndpoints(descs[s].endpoints, 1) IN
    IF a # None
      THEN Some([config |-> cfg.number,
                 iface |-> descs[s].interface_number,
                 setting |-> descs[s].setting_number,
                 address |-> Unwrap(a)])
      ELSE ScanSettings(cfg, descs, s + 1)

RECURSIVE ScanInterfaces(_, _)
ScanInterfaces(cfg, i) ==
  IF i > Len(cfg.interfaces) THEN None
  ELSE LET r == ScanSettings(cfg, cfg.interfaces[i], 1) IN
    IF r # None THEN r ELSE ScanInterfaces(cfg, i + 1)

OnConfigError_abort(configs, n, rest) == None
\* What the loop over configurations does when config_descriptor(n) fails
OnConfigError(configs, n, rest) == rest

RECURSIVE ScanConfigs(_, _)
ScanConfigs(configs, n) ==
  IF n > Len(configs) THEN None
  ELSE IF ~configs[n].ok THEN OnConfigError(configs, n, ScanConfigs(configs, n + 1))
  ELSE LET r == ScanInterfaces(configs[n], 1) IN
    IF r # None THEN r ELSE ScanConfigs(configs, n + 1)

find_readable_endpoint(configs) == ScanConfigs(configs, 1)


(* ------------------------------------------------------------------ *)
(* Inputs: what the USB layer can answer                                *)
(* ------------------------------------------------------------------ *)
\* A device of the enumeration: is its descriptor readable, its ids, and
\* whether open() succeeds on it
DeviceRecords ==
  [readable : BOOLEAN, vid : {VID, VID + 1}, pid : {PID, PID + 1}, open_ok : BOOLEAN]

DeviceLists == UNION {[1..n -> DeviceRecords] : n \in 0..MaxDevices}

\* Descriptor trees: nC configurations of nI interfaces of nS alternate
\* settings of nE endpoints each; the endpoints at the positions inb are
\* inbound; config_descriptor fails for the configurations in failed.
MkConfigs(nC, nI, nS, nE, inb, failed) ==
  [c \in 1..nC |->
    [ok |-> c \notin failed,
     number |-> c,
     interfaces |->
       [i \in 1..nI |->
         [s \in 1..nS |->
           [interface_number |-> i - 1,
            setting_number |-> s - 1,
            endpoints |->
              [e \in 1..nE |-> IF <<c, i, s, e>> \in inb THEN 128 + e ELSE e]]]]]]

\* Each level is either empty or of its full width
Shapes == {0, MaxConfigs} \X {0, MaxIfaces} \X {MaxSettings} \X {0, MaxEndpoints}

ShapePositions(sh) == (1..sh[1]) \X (1..sh[2]) \X (1..sh[3]) \X (1..sh[4])

\* At most two inbound endpoints: two positions, or the place of none
NoPosition == <<0, 0, 0, 0>>
InboundChoices(sh) == ShapePositions(sh) \cup {NoPosition}

\* The first eight bytes a control transfer can deliver
Payloads ==
  {<<0, 0, 0, 1, 31, 112, 0, 127>>,
   <<0, 0, 0, 8, 31, 112, 127, 100>>,
   <<0, 0, 0, 2, 31, 112, 127, 100>>}

\* A wider choice of the bytes the decoder reads, for the decoder alone:
\* the discriminant with the wind and temperature bytes, and with byte 7
WidePayloads ==
  {<<0, 0, 0, b3, b4, b5, b6, 127>> :
     b3 \in {0, 1, 2, 7, 8, 9, 17, 24, 33, 129, 136, 241, 248, 255},
     b4 \in {0, 1, 31, 32, 63, 255},
     b5 \in {0, 15, 16, 112, 127, 128, 255},
     b6 \in {0, 1, 127, 128, 255}}
  \cup
  {<<0, 0, 0, b3, 31, 112, 127, b7>> :
     b3 \in {0, 1, 2, 7, 8, 9, 17, 24, 33, 129, 136, 241, 248, 255},
     b7 \in {0, 100, 127, 128, 228, 255}}

\* What report two delivers: bytes that would decode as a report
TwoPayloads == {<<1, 1, 1, 1, 1, 1, 1, 1>>}

\* The byte counts a successful control transfer can return
Lens == {0, 3, 4, 7, 8}
TwoLens == {0, VEC_CAPACITY}
WideLens == (0..9) \cup {VEC_CAPACITY}

\* The bytes of a transfer the decoder can reach; the rest is zero
HeaderLen == LastFieldIndex + 1

\* The storage after a transfer wrote len bytes starting with payload p
WriteBuf(b, p, len) ==
  [i \in 0..(VEC_CAPACITY - 1) |->
    IF i < len THEN (IF i < HeaderLen THEN p[i + 1] ELSE 0) ELSE b[i]]

(* ------------------------------------------------------------------ *)
(* State                                                                *)
(* ------------------------------------------------------------------ *)
VARIABLES
  pc,                \* position in main / read_device / read_endpoint
  exit_status,       \* "running", "zero" or "nonzero"
  out,               \* the lines printed by the latest step
  scan,              \* open_device: the enumeration, the index, the opens tried
  handle_open,       \* an open DeviceHandle exists
  languages,         \* read_device: number of languages read
  configs,           \* find_readable_endpoint: the descriptors examined
  endpoint,          \* the resolved Endpoint, or None
  has_kernel_driver, \* read_endpoint's flag
  calls,             \* the kernel-driver and configuration calls made, in order
  counter,           \* the tick counter of the polling loop
  vec_len,           \* logical length of vec
  buf,               \* the 256 bytes of vec's storage
  tick                \* what the current iteration did so far

vars ==
  <<pc, exit_status, out, scan, handle_open, languages, configs, endpoint,
    has_kernel_driver, calls, counter, vec_len, buf, tick>>

NoScan == [devs |-> <<>>, idx |-> 0, opened |-> {}]

Init ==
  /\ pc = "main"
  /\ exit_status = "running"
  /\ out = <<>>
  /\ scan = NoScan
  /\ handle_open = FALSE
  /\ languages = 0
  /\ configs = <<>>
  /\ endpoint = None
  /\ has_kernel_driver = FALSE
  /\ calls = <<>>
  /\ counter = 0
  /\ vec_len = 0
  /\ buf = [i \in 0..(VEC_CAPACITY - 1) |-> Uninit]
  /\ tick = <<>>

\* A printed line that is not a report
Msg(text) == [kind |-> text]

\* A panic: the message goes to stderr, the stack unwinds (the handle is
\* dropped and so closed) and the process ends with a non-zero status.
PanicExit(msg) ==
  /\ pc' = "exit"
  /\ exit_status' = "nonzero"
  /\ out' = <<Msg(msg)>>
  /\ handle_open' = FALSE

(* ------------------------------------------------------------------ *)
(* main and open_device                                                 *)
(* ------------------------------------------------------------------ *)
ContextNew ==
  /\ pc = "main"
  /\ \E ok \in BOOLEAN :
       IF ok
         THEN /\ pc' = "open_device"
              /\ out' = <<>>
              /\ UNCHANGED <<exit_status, handle_open>>
         ELSE PanicExit("could not initialize libusb")
  /\ UNCHANGED <<scan, languages, configs, endpoint, has_kernel_driver, calls,
                 counter, vec_len, buf, tick>>

\* context.devices()
Enumerate ==
  /\ pc = "open_device"
  /\ \/ /\ pc' = "not_found"
        /\ scan' = NoScan
     \/ \E ds \in DeviceLists :
          /\ pc' = "scan"
          /\ scan' = [devs |-> ds, idx |-> 1, opened |-> {}]
  /\ out' = <<>>
  /\ UNCHANGED <<exit_status, handle_open, languages, configs, endpoint,
                 has_kernel_driver, calls, counter, vec_len, buf, tick>>

Matches_either(d) == d.vid = VID \/ d.pid = PID
Matches(d) == d.vid = VID /\ d.pid = PID

\* (a variant that does not skip a device whose descriptor was not read)
TriesOpen_unread(d) == Matches(d)
\* open() is tried on a device iff its descriptor was read and its ids match
TriesOpen(d) == d.readable /\ Matches(d)

\* One iteration of the for loop over the devices, or its end
ScanDevice ==
  /\ pc = "scan"
  /\ IF scan.idx > Len(scan.devs)
       THEN /\ pc' = "not_found"
            /\ UNCHANGED <<scan, handle_open>>
       ELSE LET d == scan.devs[scan.idx] IN
         IF TriesOpen(d)
           THEN /\ scan' = [scan EXCEPT !.opened = @ \cup {scan.idx},
                                        !.idx = IF d.open_ok THEN @ ELSE @ + 1]
                /\ handle_open' = d.open_ok
                /\ pc' = IF d.open_ok THEN "opened" ELSE "scan"
           ELSE /\ scan' = [scan EXCEPT !.idx = @ + 1]
                /\ UNCHANGED handle_open
                /\ pc' = "scan"
  /\ out' = <<>>
  /\ UNCHANGED <<exit_status, languages, configs, endpoint, has_kernel_driver,
                 calls, counter, vec_len, buf, tick>>

\* main: None => println!("could not find device"), then main returns
MainNotFound ==
  /\ pc = "not_found"
  /\ pc' = "exit"
  /\ exit_status' = "zero"
  /\ out' = <<Msg("could not find device")>>
  /\ scan' = NoScan
  /\ UNCHANGED <<handle_open, languages, configs, endpoint, has_kernel_driver,
                 calls, counter, vec_len, buf, tick>>

\* main: Some(..) => read_device(..)
MainFound ==
  /\ pc = "opened"
  /\ pc' = "reset"
  /\ out' = <<>>
  /\ scan' = NoScan
  /\ UNCHANGED <<exit_status, handle_open, languages, configs, endpoint,
                 has_kernel_driver, calls, counter, vec_len, buf, tick>>

(* ------------------------------------------------------------------ *)
(* read_device                                                          *)
(* ------------------------------------------------------------------ *)
\* (a variant that drops the error and goes on to the endpoint search)
ReadDeviceErr_dropped ==
  /\ pc' = "find_endpoint"
  /\ out' = <<>>
  /\ UNCHANGED <<exit_status, handle_open>>

\* try!(..) on an Err: read_device returns the error and main's unwrap panics
ReadDeviceErr == PanicExit("called Result::unwrap() on an Err value")

\* try!(handle.reset())
Reset ==
  /\ pc = "reset"
  /\ \E ok \in BOOLEAN :
       IF ok
         THEN /\ pc' = "read_languages"
              /\ out' = <<>>
              /\ UNCHANGED <<exit_status, handle_open>>
         ELSE ReadDeviceErr
  /\ UNCHANGED <<scan, languages, configs, endpoint, has_kernel_driver, calls,
                 counter, vec_len, buf, tick>>

\* try!(handle.read_languages(timeout))
ReadLanguages ==
  /\ pc = "read_languages"
  /\ \/ /\ ReadDeviceErr
        /\ UNCHANGED languages
     \/ \E n \in 0..1 :
          /\ languages' = n
          /\ pc' = "active_configuration"
          /\ out' = <<>>
          /\ UNCHANGED <<exit_status, handle_open>>
  /\ UNCHANGED <<scan, configs, endpoint, has_kernel_driver, calls,
                 counter, vec_len, buf, tick>>

\* try!(handle.active_configuration()) and the two println! around it
ActiveConfiguration ==
  /\ pc = "active_configuration"
  /\ \E ok \in BOOLEAN :
       IF ok
         THEN /\ pc' = "read_strings"
              /\ out' = <<Msg("Active configuration"), Msg("Languages")>>
              /\ UNCHANGED <<exit_status, handle_open>>
         ELSE ReadDeviceErr
  /\ UNCHANGED <<scan, languages, configs, endpoint, has_kernel_driver, calls,
                 counter, vec_len, buf, tick>>

\* .ok() on a string read: Some(string) or None, printed either way
StringLine(label, ok) == [kind |-> label, value |-> IF ok THEN "Some" ELSE "None"]

ReadStrings ==
  /\ pc = "read_strings"
  /\ IF languages > 0
       THEN \E m \in BOOLEAN, p \in BOOLEAN, s \in BOOLEAN :
              out' = <<StringLine("Manufacturer", m), StringLine("Product", p),
                       StringLine("Serial Number", s)>>
       ELSE out' = <<>>
  /\ pc' = "find_endpoint"
  /\ UNCHANGED <<exit_status, scan, handle_open, languages, configs, endpoint,
                 has_kernel_driver, calls, counter, vec_len, buf, tick>>

\* find_readable_endpoint(device, device_desc) on the device's descriptors
FindReadableEndpoint ==
  /\ pc = "find_endpoint"
  /\ \E sh \in Shapes :
       \E a \in InboundChoices(sh), b \in InboundChoices(sh), failed \in SUBSET (1..sh[1]) :
         LET t == MkConfigs(sh[1], sh[2], sh[3], sh[4], {a, b}, failed) IN
           /\ configs' = t
           /\ endpoint' = find_readable_endpoint(t)
  /\ pc' = "resolved"
  /\ out' = <<>>
  /\ UNCHANGED <<exit_status, scan, handle_open, languages, has_kernel_driver,
                 calls, counter, vec_len, buf, tick>>

\* match find_readable_endpoint(..) { Some(endpoint) => read_endpoint(..),
\*                                    None => println!(..) }
ReadDeviceMatch ==
  /\ pc = "resolved"
  /\ IF endpoint # None
       THEN /\ pc' = "kernel_driver"
            /\ out' = <<Msg("Reading from endpoint")>>
       ELSE /\ pc' = "return_ok"
            /\ out' = <<Msg("No readable control endpoint")>>
  /\ configs' = <<>>
  /\ UNCHANGED <<exit_status, scan, handle_open, languages, endpoint,
                 has_kernel_driver, calls, counter, vec_len, buf, tick>>

\* read_device returned Ok(()): unwrap succeeds and main returns
MainReturn ==
  /\ pc = "return_ok"
  /\ pc' = "exit"
  /\ exit_status' = "zero"
  /\ out' = <<>>
  /\ handle_open' = FALSE
  /\ UNCHANGED <<scan, languages, configs, endpoint, has_kernel_driver, calls,
                 counter, vec_len, buf, tick>>

(* ------------------------------------------------------------------ *)
(* read_endpoint: kernel driver and configuration                       *)
(* ------------------------------------------------------------------ *)
Call(op, args, ok) == [op |-> op, args |-> args, ok |-> ok]

\* The record of handle.kernel_driver_active(iface) and its answer
Query(iface, answer) ==
  [op |-> "kernel_driver_active", args |-> <<iface>>, ok |-> answer # "Err",
   answer |-> answer]

\* (a variant that takes an error for an active driver)
KernelDriverFlag_err(answer) == answer # "Ok(false)"
\* The flag computed from the answer of kernel_driver_active
KernelDriverFlag(answer) == answer = "Ok(true)"

\* let has_kernel_driver = match handle.kernel_driver_active(..) {..}
KernelDriver ==
  /\ pc = "kernel_driver"
  /\ \E answer \in {"Ok(true)", "Ok(false)", "Err"}, detached \in BOOLEAN :
       /\ has_kernel_driver' = KernelDriverFlag(answer)
       /\ calls' =
            <<Query(Unwrap(endpoint).iface, answer)>>
            \o (IF KernelDriverFlag(answer)
                  THEN <<Call("detach_kernel_driver", <<Unwrap(endpoint).iface>>, detached)>>
                  ELSE <<>>)
  /\ pc' = "configure"
  /\ out' = <<Msg("kernel driver?")>>
  /\ UNCHANGED <<exit_status, scan, handle_open, languages, configs, endpoint,
                 counter, vec_len, buf, tick>>

\* (a variant that goes on after a failed step)
ConfigureCalls_all(ep, r1, r2, r3) ==
  <<Call("set_active_configuration", <<ep.config>>, r1),
    Call("claim_interface", <<ep.iface>>, r2),
    Call("set_alternate_setting", <<ep.iface, ep.setting>>, r3)>>

\* configure_endpoint: the calls made when the three steps answer r1, r2, r3;
\* try! returns at the first failure
ConfigureCalls(ep, r1, r2, r3) ==
  <<Call("set_active_configuration", <<ep.config>>, r1)>>
  \o (IF r1 THEN <<Call("claim_interface", <<ep.iface>>, r2)>> ELSE <<>>)
  \o (IF r1 /\ r2
        THEN <<Call("set_alternate_setting", <<ep.iface, ep.setting>>, r3)>>
        ELSE <<>>)

\* (a variant that looks at the first step only)
ConfigureOk_first(r1, r2, r3) == r1
ConfigureOk(r1, r2, r3) == r1 /\ r2 /\ r3

OnConfigureErr_poll == "sleep"

\* Where read_endpoint goes when configure_endpoint returned Err: past the
\* match, to the reattach and the return
OnConfigureErr == "after_match"

\* match configure_endpoint(handle, &endpoint) { Ok(_) => {..loop..},
\*                                                Err(err) => println!(..) }
Configure ==
  /\ pc = "configure"
  /\ \E r1 \in BOOLEAN, r2 \in BOOLEAN, r3 \in BOOLEAN :
       /\ calls' = calls \o ConfigureCalls(Unwrap(endpoint), r1, r2, r3)
       /\ IF ConfigureOk(r1, r2, r3)
            THEN /\ pc' = "sleep"
                 /\ out' = <<>>
            ELSE /\ pc' = OnConfigureErr
                 /\ out' = <<Msg("could not configure endpoint")>>
  /\ counter' = 0
  /\ vec_len' = 0
  /\ UNCHANGED <<exit_status, scan, handle_open, languages, configs, endpoint,
                 has_kernel_driver, buf, tick>>

\* if has_kernel_driver { handle.attach_kernel_driver(..).ok(); } and the
\* return of read_endpoint, then read_device's Ok(())
AfterMatch ==
  /\ pc = "after_match"
  /\ IF has_kernel_driver
       THEN \E ok \in BOOLEAN :
              calls' = Append(calls, Call("attach_kernel_driver", <<Unwrap(endpoint).iface>>, ok))
       ELSE UNCHANGED calls
  /\ pc' = "return_ok"
  /\ out' = <<>>
  /\ UNCHANGED <<exit_status, scan, handle_open, languages, configs, endpoint,
                 has_kernel_driver, counter, vec_len, buf, tick>>

(* ------------------------------------------------------------------ *)
(* read_endpoint: the polling loop                                      *)
(* ------------------------------------------------------------------ *)
Slept == [op |-> "sleep"]
Xfer(report, ok, len) == [op |-> "read_control", report |-> report, ok |-> ok, len |-> len]
Printed(line) == [op |-> "println", line |-> line]

ReadError == Msg("could not read from endpoint")

\* (a variant that accumulates the lengths)
SetLen_add(old, len) == old + len
\* unsafe { vec.set_len(len) }
SetLen(old, len) == len

AfterReadErr_break(next) == "after_match"
\* (a variant that asks again at once)
AfterReadErr_retry(next) == "poll_one"
\* Where the loop goes after a control transfer returned Err
AfterReadErr(next) == next

\* thread::sleep(Duration::from_millis(1000)) at the top of an iteration
\* (the model stops iterating after tick number last)
SleepUpTo(last) ==
  /\ pc = "sleep"
  /\ counter <= last
  /\ pc' = "poll_one"
  /\ tick' = <<Slept>>
  /\ out' = <<>>
  /\ UNCHANGED <<exit_status, scan, handle_open, languages, configs, endpoint,
                 has_kernel_driver, calls, counter, vec_len, buf>>

\* if counter % 10 == 0 { match handle.read_control(.. REPORT_ONE ..) {..} }
PollReportOne(P, L) ==
  /\ pc = "poll_one"
  /\ IF ReportOneDue(counter)
       THEN \/ /\ tick' = Append(Append(tick, Xfer(1, FALSE, 0)), Printed(ReadError))
               /\ out' = <<ReadError>>
               /\ pc' = AfterReadErr("poll_two")
               /\ UNCHANGED <<exit_status, handle_open, vec_len, buf>>
            \/ \E p \in P, len \in L :
                 LET b == WriteBuf(buf, p, len)
                     n == SetLen(vec_len, len)
                     d == DecodeReportOne(b, n)
                 IN /\ buf' = b
                    /\ vec_len' = n
                    /\ IF d.panic
                         THEN /\ PanicExit("index out of bounds")
                              /\ tick' = Append(tick, Xfer(1, TRUE, len))
                         ELSE /\ pc' = "poll_two"
                              /\ out' = d.reports
                              /\ tick' = Append(tick, Xfer(1, TRUE, len))
                                         \o [k \in 1..Len(d.reports) |-> Printed(d.reports[k])]
                              /\ UNCHANGED <<exit_status, handle_open>>
       ELSE /\ pc' = "poll_two"
            /\ out' = <<>>
            /\ UNCHANGED <<exit_status, handle_open, vec_len, buf, tick>>
  /\ UNCHANGED <<scan, languages, configs, endpoint, has_kernel_driver, calls, counter>>

\* if counter % 30 == 0 { match handle.read_control(.. REPORT_TWO ..) {..} }
\* (a variant that decodes report two as it decodes report one)
PollReportTwo_decoded(P, L) ==
  /\ pc = "poll_two"
  /\ IF ReportTwoDue(counter)
       THEN \/ /\ tick' = Append(Append(tick, Xfer(2, FALSE, 0)), Printed(ReadError))
               /\ out' = <<ReadError>>
               /\ UNCHANGED <<vec_len, buf>>
            \/ \E p \in P, len \in L :
                 LET b == WriteBuf(buf, p, len)
                     d == DecodeReportOne(b, len)
                     r == IF d.panic THEN <<>> ELSE d.reports
                 IN /\ buf' = b
                    /\ vec_len' = SetLen(vec_len, len)
                    /\ out' = r
                    /\ tick' = Append(tick, Xfer(2, TRUE, len))
                               \o [k \in 1..Len(r) |-> Printed(r[k])]
       ELSE /\ out' = <<>>
            /\ UNCHANGED <<vec_len, buf, tick>>
  /\ pc' = "increment"
  /\ UNCHANGED <<exit_status, scan, handle_open, languages, configs, endpoint,
                 has_kernel_driver, calls, counter>>

PollReportTwo(P, L) ==
  /\ pc = "poll_two"
  /\ IF ReportTwoDue(counter)
       THEN \/ /\ tick' = Append(Append(tick, Xfer(2, FALSE, 0)), Printed(ReadError))
               /\ out' = <<ReadError>>
               /\ UNCHANGED <<vec_len, buf>>
            \/ \E p \in P, len \in L :
                 /\ buf' = WriteBuf(buf, p, len)
                 /\ vec_len' = SetLen(vec_len, len)
                 /\ out' = <<>>
                 /\ tick' = Append(tick, Xfer(2, TRUE, len))
       ELSE /\ out' = <<>>
            /\ UNCHANGED <<vec_len, buf, tick>>
  /\ pc' = "increment"
  /\ UNCHANGED <<exit_status, scan, handle_open, languages, configs, endpoint,
                 has_kernel_driver, calls, counter>>

\* counter = counter + 1; the loop starts over
Increment ==
  /\ pc = "increment"
  /\ counter' = counter + 1
  /\ pc' = "sleep"
  /\ out' = <<>>
  /\ UNCHANGED <<exit_status, scan, handle_open, languages, configs, endpoint,
                 has_kernel_driver, calls, vec_len, buf, tick>>

\* The whole program follows the loop through its first ticks; the loop on
\* its own is followed for MaxTick ticks (SpecPoll below)
Sleep == SleepUpTo(MaxStartTick)
PollOne == PollReportOne(Payloads, Lens)
PollTwo == PollReportTwo(TwoPayloads, TwoLens)

Next ==
  \/ ContextNew
  \/ Enumerate
  \/ ScanDevice
  \/ MainNotFound
  \/ MainFound
  \/ Reset
  \/ ReadLanguages
  \/ ActiveConfiguration
  \/ ReadStrings
  \/ FindReadableEndpoint
  \/ ReadDeviceMatch
  \/ MainReturn
  \/ KernelDriver
  \/ Configure
  \/ AfterMatch
  \/ Sleep
  \/ PollOne
  \/ PollTwo
  \/ Increment

Spec == Init /\ [][Next]_vars

(* ------------------------------------------------------------------ *)
(* The decoder on its own: the first iteration of a configured session, *)
(* over a wider choice of bytes and lengths                             *)
(* ------------------------------------------------------------------ *)
InitPoll ==
  /\ pc = "sleep"
  /\ exit_status = "running"
  /\ out = <<>>
  /\ scan = NoScan
  /\ handle_open = TRUE
  /\ languages = 0
  /\ configs = <<>>
  /\ endpoint = Some([config |-> 1, iface |-> 0, setting |-> 0, address |-> 129])
  /\ has_kernel_driver = FALSE
  /\ calls = <<Query(0, "Ok(false)")>>
             \o ConfigureCalls([config |-> 1, iface |-> 0, setting |-> 0, address |-> 129],
                               TRUE, TRUE, TRUE)
  /\ counter = 0
  /\ vec_len = 0
  /\ buf = [i \in 0..(VEC_CAPACITY - 1) |-> Uninit]
  /\ tick = <<>>

SleepFirst == SleepUpTo(0)
PollOneWide == PollReportOne(WidePayloads, WideLens)

NextDecode ==
  \/ SleepFirst
  \/ PollOneWide
  \/ PollTwo
  \/ Increment

SpecDecode == InitPoll /\ [][NextDecode]_vars

(* ------------------------------------------------------------------ *)
(* The decoder over every value of the bytes it combines                *)
(* ------------------------------------------------------------------ *)
Bytes == 0..255

\* A wind/rain header for every value of bytes 4 and 5
PollOneWindBytes ==
  /\ pc = "poll_one"
  /\ \E b4 \in Bytes, b5 \in Bytes :
       PollReportOne({<<0, 0, 0, 1, b4, b5, 0, 0>>}, {HeaderLen})

\* A wind/temperature header for every value of bytes 5 and 6
PollOneTempBytes ==
  /\ pc = "poll_one"
  /\ \E b5 \in Bytes, b6 \in Bytes :
       PollReportOne({<<0, 0, 0, 8, 255, b5, b6, 0>>}, {HeaderLen})

NextBytes ==
  \/ SleepFirst
  \/ PollOneTempBytes
  \/ PollOneWindBytes

SpecBytes == InitPoll /\ [][NextBytes]_vars

(* ------------------------------------------------------------------ *)
(* The polling loop on its own, from a configured session               *)
(* ------------------------------------------------------------------ *)
SleepLong == SleepUpTo(MaxTick)

NextPoll ==
  \/ SleepLong
  \/ PollOne
  \/ PollTwo
  \/ Increment

SpecPoll == InitPoll /\ [][NextPoll]_vars

(* ------------------------------------------------------------------ *)
(* Properties                                                           *)
(* ------------------------------------------------------------------ *)
LoopPcs == {"sleep", "poll_one", "poll_two", "increment"}

\* The control transfers of the current iteration
Transfers(report) ==
  {k \in 1..Len(tick) : tick[k].op = "read_control" /\ tick[k].report = report}
Issued(report) == Transfers(report) # {}
Failed(report) == \E k \in Transfers(report) : ~tick[k].ok
Succeeded(report) == \E k \in Transfers(report) : tick[k].ok
Prints == {k \in 1..Len(tick) : tick[k].op = "println"}
ReportPrints == {k \in Prints : tick[k].line.kind \in {"wind_rain", "wind_temp_humidity"}}

\* The iteration has passed the report-one block / the report-two block
PastOne == pc \in {"poll_two", "increment"}
PastTwo == pc = "increment"
InIteration == pc \in {"poll_one", "poll_two", "increment", "exit"} /\ tick # <<>>

\* C1: in an iteration with tick counter c, report one is requested iff
\* c mod 10 = 0 and report two iff c mod 30 = 0; both are requested exactly
\* at the multiples of 30, and report two never without report one.
C1_Schedule ==
  /\ InIteration =>
       /\ Issued(1) => counter % 10 = 0
       /\ Issued(2) => counter % 30 = 0
       /\ Issued(2) => Issued(1)
  /\ PastOne => (Issued(1) <=> counter % 10 = 0)
  /\ PastTwo => (Issued(2) <=> counter % 30 = 0)
  /\ PastTwo => ((Issued(1) /\ Issued(2)) <=> counter % 30 = 0)

C1_Witness ==
  /\ pc = "increment"
  /\ counter = 30
  /\ Issued(1)
  /\ Issued(2)

\* C2: a failed control transfer leaves the loop running and the schedule
\* alone: the iteration goes on, report two due in the same tick is still
\* requested after a failed report one, and the counter advances by one.
C2_FailureKeepsLoop ==
  /\ []((Failed(1) \/ Failed(2)) =>
          /\ pc \in LoopPcs
          /\ exit_status = "running"
          /\ Failed(1) /\ PastTwo /\ counter % 30 = 0 =>
               \E j \in Transfers(1), k \in Transfers(2) : ~tick[j].ok /\ j < k
          /\ PastOne => (Issued(1) <=> counter % 10 = 0)
          /\ PastTwo => (Issued(2) <=> counter % 30 = 0))
  /\ [][((Failed(1) \/ Failed(2)) /\ pc \in {"poll_two", "increment"}) =>
          /\ pc' \in LoopPcs
          /\ pc = "poll_two" => pc' = "increment" /\ counter' = counter
          /\ pc = "increment" => pc' = "sleep" /\ counter' = counter + 1]_vars

C2_Witness ==
  /\ pc = "sleep"
  /\ counter = 31
  /\ Failed(1)
  /\ Failed(2)

\* The inbound endpoints of the configurations that could be fetched, as
\* positions <<configuration, interface, setting, endpoint>>
InboundPositions(cs) ==
  {q \in (1..Len(cs)) \X (1..MaxIfaces) \X (1..MaxSettings) \X (1..MaxEndpoints) :
     /\ cs[q[1]].ok
     /\ q[2] <= Len(cs[q[1]].interfaces)
     /\ q[3] <= Len(cs[q[1]].interfaces[q[2]])
     /\ q[4] <= Len(cs[q[1]].interfaces[q[2]][q[3]].endpoints)
     /\ cs[q[1]].interfaces[q[2]][q[3]].endpoints[q[4]] >= 128}

LexLess(a, b) ==
  \E k \in 1..4 : a[k] < b[k] /\ \A j \in 1..(k - 1) : a[j] = b[j]

EndpointAt(cs, q) ==
  LET d == cs[q[1]].interfaces[q[2]][q[3]] IN
    [config |-> cs[q[1]].number,
     iface |-> d.interface_number,
     setting |-> d.setting_number,
     address |-> d.endpoints[q[4]]]

\* C3: find_readable_endpoint returns the inbound endpoint that comes first
\* in configuration, interface, setting, endpoint order among the fetched
\* configurations, with the numbers of its descriptors, and None iff no
\* fetched configuration has an inbound endpoint.
C3_FirstInbound ==
  pc = "resolved" =>
    LET ps == InboundPositions(configs) IN
      IF ps = {}
        THEN endpoint = None
        ELSE \E q \in ps :
               /\ \A r \in ps : r = q \/ LexLess(q, r)
               /\ endpoint = Some(EndpointAt(configs, q))

\* The first configuration cannot be fetched though it holds an inbound
\* endpoint; the answer is the second endpoint of the second interface of
\* the second configuration
C3_Witness ==
  /\ pc = "resolved"
  /\ endpoint # None
  /\ Len(configs) > 1
  /\ ~configs[1].ok
  /\ Len(configs[1].interfaces) > 0
  /\ Len(configs[1].interfaces[1][1].endpoints) > 0
  /\ configs[1].interfaces[1][1].endpoints[1] >= 128
  /\ Cardinality(InboundPositions(configs)) = 1
  /\ Unwrap(endpoint).config = 2
  /\ Unwrap(endpoint).iface = 1
  /\ Unwrap(endpoint).address = 130

\* Bytes as sets of bit positions
Bits(x) == {k \in 0..7 : (x \div (2 ^ k)) % 2 = 1}
BitVal(S, k) == IF k \in S THEN 2 ^ k ELSE 0
FromBits(S) ==
  BitVal(S, 0) + BitVal(S, 1) + BitVal(S, 2) + BitVal(S, 3)
  + BitVal(S, 4) + BitVal(S, 5) + BitVal(S, 6) + BitVal(S, 7)
And8(x, y) == FromBits(Bits(x) \cap Bits(y))
Or8(x, y) == FromBits(Bits(x) \cup Bits(y))
ShiftLeft8(x, n) == FromBits({k + n : k \in Bits(x)})
ShiftRight8(x, n) == FromBits({k - n : k \in Bits(x)})

\* The length returned by the successful report-one transfer of this iteration
LenOne == tick[CHOOSE k \in Transfers(1) : tick[k].ok].len

\* Report one was just received with at least n bytes
ReceivedOne(n) ==
  /\ pc \in {"poll_two", "exit"}
  /\ Succeeded(1)
  /\ LenOne >= n

ExpectedWindRaw == Or8(ShiftLeft8(And8(buf[4], 31), 3), ShiftRight8(And8(buf[5], 112), 7))
ExpectedTempRaw == Or8(ShiftRight8(And8(buf[5], 15), 7), And8(buf[6], 127))

\* C4: a report-one buffer of at least 8 bytes with discriminant 1 yields
\* exactly one wind/rain report: raw wind ((b4 & 0x1F) << 3) | ((b5 & 0x70) >> 7)
\* as a byte, speed raw * 0.62, direction b5 & 0x0F, rain b7 & 0x7F; bytes
\* 0x1F, 0x70, 0x7F give raw 248, speed 153.76, direction 0, rain 127.
C4_WindRain ==
  (ReceivedOne(8) /\ And8(buf[3], 15) = 1) =>
    /\ pc = "poll_two"
    /\ Cardinality(ReportPrints) = 1
    /\ Len(out) = 1
    /\ out[1] = [kind |-> "wind_rain",
                 wind_raw |-> ExpectedWindRaw,
                 wind_speed_x100 |-> ExpectedWindRaw * 62,
                 wind_dir |-> And8(buf[5], 15),
                 rain_count |-> And8(buf[7], 127)]
    /\ out[1].wind_raw \in 0..255
    /\ (buf[4] = 31 /\ buf[5] = 112 /\ buf[7] = 127) =>
         /\ out[1].wind_raw = 248
         /\ out[1].wind_speed_x100 = 15376
         /\ out[1].wind_dir = 0
         /\ out[1].rain_count = 127

C4_Witness ==
  /\ ReceivedOne(8)
  /\ buf[3] = 241
  /\ buf[4] = 255
  /\ buf[5] = 255
  /\ Len(out) = 1
  /\ out[1].kind = "wind_rain"
  /\ out[1].wind_raw = 248
  /\ out[1].wind_dir = 15

\* C5: a report-one buffer of at least 8 bytes with discriminant 8 yields
\* exactly one wind/temperature/humidity report: the same raw wind, raw
\* temperature ((b5 & 0x0F) >> 7) | (b6 & 0x7F), temperature (raw - 400) / 10,
\* humidity b7 & 0x7F; bytes 0x1F, 0x70, 0x7F, 0x64 give raw wind 248, raw
\* temperature 127, temperature -27.3, humidity 100.
C5_WindTempHumidity ==
  (ReceivedOne(8) /\ And8(buf[3], 15) = 8) =>
    /\ pc = "poll_two"
    /\ Cardinality(ReportPrints) = 1
    /\ Len(out) = 1
    /\ out[1] = [kind |-> "wind_temp_humidity",
                 wind_raw |-> ExpectedWindRaw,
                 wind_speed_x100 |-> ExpectedWindRaw * 62,
                 temp_raw |-> ExpectedTempRaw,
                 temp_x10 |-> ExpectedTempRaw - 400,
                 humidity |-> And8(buf[7], 127)]
    /\ out[1].temp_raw \in 0..255
    /\ (buf[4] = 31 /\ buf[5] = 112 /\ buf[6] = 127 /\ buf[7] = 100) =>
         /\ out[1].wind_raw = 248
         /\ out[1].temp_raw = 127
         /\ out[1].temp_x10 = -273
         /\ out[1].humidity = 100

C5_Witness ==
  /\ ReceivedOne(8)
  /\ buf[3] = 248
  /\ buf[5] = 255
  /\ buf[6] = 255
  /\ Len(out) = 1
  /\ out[1].kind = "wind_temp_humidity"
  /\ out[1].temp_raw = 127
  /\ out[1].temp_x10 = -273

\* Report one was just received and its discriminant is neither 1 nor 8
OtherDiscriminant ==
  /\ ReceivedOne(DiscriminantIndex + 1)
  /\ And8(buf[3], 15) \notin {1, 8}

\* C6: a received report-one buffer whose discriminant is neither 1 nor 8
\* yields no report and no error line, and the loop goes on to the rest of
\* the iteration and to the next tick.
C6_OtherDiscriminantSilent ==
  /\ [](OtherDiscriminant =>
          /\ pc = "poll_two"
          /\ exit_status = "running"
          /\ out = <<>>
          /\ Prints = {})
  /\ [][OtherDiscriminant => (pc' = "increment" /\ exit_status' = "running")]_vars
  /\ [][pc = "increment" => (pc' = "sleep" /\ counter' = counter + 1)]_vars

C6_Witness ==
  /\ OtherDiscriminant
  /\ LenOne = 4
  /\ buf[3] = 9

\* C7 (as claimed): a report-one transfer that returns fewer than 8 bytes
\* yields no report and leaves the loop running.
C7_ShortBufferSkipped ==
  (Succeeded(1) /\ LenOne < 8) =>
    /\ pc \in LoopPcs
    /\ exit_status = "running"
    /\ ReportPrints = {}

\* configure_endpoint returned Ok / returned Err
ConfigureSucceeded ==
  \E k \in 1..Len(calls) : calls[k].op = "set_alternate_setting" /\ calls[k].ok
ConfigureFailed ==
  \E k \in 1..Len(calls) :
    /\ calls[k].op \in {"set_active_configuration", "claim_interface", "set_alternate_setting"}
    /\ ~calls[k].ok

\* C8 (as claimed): once configure_endpoint succeeded the loop never ends,
\* whatever the control transfers return.
C8_LoopNeverExits ==
  ConfigureSucceeded => (pc \in LoopPcs /\ exit_status = "running")

\* The device indices on which open() may be tried
Openable(devs) ==
  {k \in 1..Len(devs) : devs[k].readable /\ devs[k].vid = VID /\ devs[k].pid = PID}
NoDeviceMatches(devs) ==
  \A k \in 1..Len(devs) : ~(devs[k].vid = VID /\ devs[k].pid = PID)

\* C9: when no enumerated device has the requested ids, open_device returns
\* None, open was tried on no device, and no handle is open; open is only
\* ever tried on devices with a readable descriptor and both ids matching.
C9_NotFoundOpensNothing ==
  /\ scan.opened \subseteq Openable(scan.devs)
  /\ (pc \in {"scan", "opened", "not_found"} /\ NoDeviceMatches(scan.devs)) =>
       /\ pc # "opened"
       /\ scan.opened = {}
       /\ ~handle_open
  /\ (pc = "scan" /\ scan.idx > Len(scan.devs)) => ~handle_open
  /\ pc = "not_found" => ~handle_open
  /\ (pc = "exit" /\ out = <<Msg("could not find device")>>) =>
       (~handle_open /\ exit_status = "zero")

C9_Witness ==
  /\ pc = "not_found"
  /\ Len(scan.devs) >= 2
  /\ NoDeviceMatches(scan.devs)
  /\ \E k \in 1..Len(scan.devs) :
       scan.devs[k].readable /\ scan.devs[k].vid = VID /\ scan.devs[k].open_ok
  /\ \E k \in 1..Len(scan.devs) : ~scan.devs[k].readable

CallsOf(ops) == {k \in 1..Len(calls) : calls[k].op \in ops}
AttachCalls == CallsOf({"attach_kernel_driver"})
DetachCalls == CallsOf({"detach_kernel_driver"})
ConfigOps == {"set_active_configuration", "claim_interface", "set_alternate_setting"}

\* C11 (as claimed): whenever the process has ended after a kernel driver
\* was found active, a reattach on that interface was attempted before.
C11_ReattachBeforeExit ==
  (pc = "exit" /\ has_kernel_driver) =>
    \E k \in AttachCalls : calls[k].args = <<Unwrap(endpoint).iface>>

\* The configuration calls made so far, in order
RECURSIVE SelectOps(_, _)
SelectOps(cs, ops) ==
  IF cs = <<>> THEN <<>>
  ELSE (IF Head(cs).op \in ops THEN <<Head(cs)>> ELSE <<>>) \o SelectOps(Tail(cs), ops)

ConfigSteps == SelectOps(calls, ConfigOps)

\* The three steps configure_endpoint is to make for the resolved endpoint
PlannedSteps ==
  <<[op |-> "set_active_configuration", args |-> <<Unwrap(endpoint).config>>],
    [op |-> "claim_interface", args |-> <<Unwrap(endpoint).iface>>],
    [op |-> "set_alternate_setting",
     args |-> <<Unwrap(endpoint).iface, Unwrap(endpoint).setting>>]>>

\* C12: configure_endpoint sets the configuration, claims the interface and
\* selects the alternate setting, in that order and with the endpoint's
\* numbers; after a failed step no later step is made, the error reaches
\* the caller, and no control transfer is issued in the session.
C12_ConfigureInOrder ==
  /\ Len(ConfigSteps) <= 3
  /\ \A k \in 1..Len(ConfigSteps) :
       /\ ConfigSteps[k].op = PlannedSteps[k].op
       /\ ConfigSteps[k].args = PlannedSteps[k].args
       /\ k < Len(ConfigSteps) => ConfigSteps[k].ok
  /\ pc \notin {"main", "open_device", "scan", "opened", "not_found", "reset",
                "read_languages", "active_configuration", "read_strings",
                "find_endpoint", "resolved", "kernel_driver", "configure"}
       /\ endpoint # None =>
         /\ ConfigSteps # <<>>
         /\ ConfigSteps[Len(ConfigSteps)].ok => Len(ConfigSteps) = 3
  /\ ConfigureFailed =>
       /\ ~ConfigSteps[Len(ConfigSteps)].ok
       /\ pc \notin LoopPcs
       /\ tick = <<>>
       /\ pc = "after_match" => out = <<Msg("could not configure endpoint")>>
  /\ tick # <<>> => (Len(ConfigSteps) = 3 /\ ConfigSteps[3].ok)

C12_Witness ==
  /\ pc = "after_match"
  /\ Len(ConfigSteps) = 2
  /\ ~ConfigSteps[2].ok
  /\ Unwrap(endpoint).config = 2
  /\ Unwrap(endpoint).iface = 1
  /\ Unwrap(endpoint).setting = 1

Sleeps == {k \in 1..Len(tick) : tick[k].op = "sleep"}
AllTransfers == Transfers(1) \cup Transfers(2)

\* C13: within one tick the transfers are sequential. The iteration sleeps
\* once, before any transfer; at most two transfers are issued, at most one
\* of each report; report two is issued only after the report one of the
\* tick has returned and its buffer has been decoded and printed.
C13_SequentialTransfers ==
  /\ tick # <<>> => Sleeps = {1}
  /\ Cardinality(Transfers(1)) <= 1
  /\ Cardinality(Transfers(2)) <= 1
  /\ Cardinality(AllTransfers) <= 2
  /\ pc = "poll_one" => AllTransfers = {}
  /\ pc = "poll_two" => Transfers(2) = {}
  /\ \A k \in Transfers(2) :
       /\ k = Len(tick) \/ (k = Len(tick) - 1 /\ ~tick[k].ok /\ tick[Len(tick)].line = ReadError)
       /\ \A j \in Transfers(1) : j < k
       /\ \A i \in Prints : i < k => \E j \in Transfers(1) : j < i
       /\ ReportOneDue(counter) => Transfers(1) # {}
  /\ \A j \in Transfers(1) :
       /\ j = 2
       /\ tick[j].ok /\ pc # "exit" =>
            LET d == DecodeReportOne(buf, tick[j].len)
            IN Transfers(2) = {} =>
                 SubSeq(tick, j + 1, Len(tick)) =
                   [i \in 1..Len(d.reports) |-> Printed(d.reports[i])]

C13_Witness ==
  /\ pc = "increment"
  /\ counter = REPORT_TWO_PERIOD
  /\ Succeeded(1)
  /\ ReportPrints # {}
  /\ Succeeded(2)
  /\ Len(tick) = 4

\* The step made a control transfer: its record is the first entry the
\* step added to the tick's log
TransferStep ==
  /\ Len(tick') > Len(tick)
  /\ tick'[Len(tick) + 1].op = "read_control"
StepTransfer == tick'[Len(tick) + 1]

\* C14: in every state of the loop the buffer has capacity 256 and the
\* logical length is at most 256; a successful transfer sets the logical
\* length to the byte count it returned; a failed transfer leaves the
\* logical length (and the buffer) as they were.
C14_LengthFollowsTransfer ==
  /\ [](/\ DOMAIN buf = 0..255
        /\ vec_len \in 0..256)
  /\ [][TransferStep =>
          IF StepTransfer.ok
            THEN vec_len' = StepTransfer.len
            ELSE vec_len' = vec_len /\ buf' = buf]_vars
  /\ [][~TransferStep => (vec_len' = vec_len /\ buf' = buf)]_vars

C14_Witness ==
  /\ pc = "increment"
  /\ counter = REPORT_ONE_PERIOD * 3
  /\ Failed(1)
  /\ Succeeded(2)
  /\ vec_len = VEC_CAPACITY

\* The first bytes of the storage, as a payload
Header == [i \in 1..HeaderLen |-> buf[i - 1]]

\* C15: a report is printed only as the direct result of a successful
\* report-one transfer of the same tick, decoded from the bytes that
\* transfer delivered, within its returned length. Report two never leads
\* to a report, and the bytes it wrote are not decoded in a later tick.
C15_ReportsFromReportOne ==
  /\ [](\A k \in ReportPrints :
          /\ k = 3
          /\ tick[k - 1].op = "read_control"
          /\ tick[k - 1].report = 1
          /\ tick[k - 1].ok
          /\ LastFieldIndex < tick[k - 1].len
          /\ Cardinality(ReportPrints) = 1
          /\ pc = "poll_two" =>
               /\ Header \in Payloads
               /\ Header \notin TwoPayloads
               /\ out = <<tick[k].line>>
               /\ tick[k].line.kind = "wind_rain" =>
                    /\ And8(buf[3], 15) = 1
                    /\ tick[k].line.wind_raw = ExpectedWindRaw
                    /\ tick[k].line.wind_dir = And8(buf[5], 15)
                    /\ tick[k].line.rain_count = And8(buf[7], 127)
               /\ tick[k].line.kind = "wind_temp_humidity" =>
                    /\ And8(buf[3], 15) = 8
                    /\ tick[k].line.wind_raw = ExpectedWindRaw
                    /\ tick[k].line.temp_raw = ExpectedTempRaw)
  /\ []((Failed(1) \/ ~Issued(1)) => ReportPrints = {})
  /\ [][pc = "poll_two" =>
          /\ ReportPrints' = ReportPrints
          /\ out' \in {<<>>, <<ReadError>>}]_vars

C15_Witness ==
  /\ pc = "increment"
  /\ counter = REPORT_TWO_PERIOD
  /\ ReportPrints = {3}
  /\ tick[3].line.kind = "wind_temp_humidity"
  /\ Succeeded(2)
  /\ vec_len = VEC_CAPACITY
  /\ out = <<>>

\* C16: the flag is true exactly when the query answered true, whatever
\* the detach answered; a failed detach does not keep configuration from
\* being attempted; detach and reattach are called only with the flag true
\* (never after the query answered false or failed); the reattach never
\* comes before the detach.
C16_FlagGovernsDriverCalls ==
  /\ calls = <<>> => ~has_kernel_driver
  /\ calls # <<>> =>
       /\ calls[1].op = "kernel_driver_active"
       /\ calls[1].args = <<Unwrap(endpoint).iface>>
       /\ CallsOf({"kernel_driver_active"}) = {1}
       /\ has_kernel_driver <=> calls[1].answer = "Ok(true)"
       /\ DetachCalls = IF calls[1].answer = "Ok(true)" THEN {2} ELSE {}
       /\ \A d \in DetachCalls : calls[d].args = <<Unwrap(endpoint).iface>>
       /\ \A a \in AttachCalls :
            /\ calls[1].answer = "Ok(true)"
            /\ has_kernel_driver
            /\ calls[a].args = <<Unwrap(endpoint).iface>>
            /\ a = Len(calls)
            /\ \A d \in DetachCalls : d < a
       /\ Cardinality(AttachCalls) <= 1
       /\ (\E d \in DetachCalls : ~calls[d].ok) /\ pc # "configure" =>
            /\ ConfigSteps # <<>>
            /\ calls[3].op = "set_active_configuration"
       /\ pc = "return_ok" => (AttachCalls # {} <=> has_kernel_driver)

C16_Witness ==
  /\ pc = "return_ok"
  /\ has_kernel_driver
  /\ Len(calls) = 4
  /\ calls[2].op = "detach_kernel_driver"
  /\ ~calls[2].ok
  /\ calls[3].op = "set_active_configuration"
  /\ calls[4].op = "attach_kernel_driver"
  /\ calls[4].args = <<1>>

\* The devices open_device can return: descriptor read, both ids match,
\* open succeeds
Usable(devs) == {k \in Openable(devs) : devs[k].open_ok}

\* C17: open_device returns the first device, in enumeration order, whose
\* descriptor is readable, whose ids both match and whose open succeeds;
\* devices with an unreadable descriptor or a failed open are passed over,
\* no device after the returned one is opened, and a failed enumeration
\* gives not-found.
C17_FirstUsableDevice ==
  /\ [](pc = "opened" =>
          /\ scan.idx \in Usable(scan.devs)
          /\ \A j \in Usable(scan.devs) : scan.idx <= j
          /\ handle_open
          /\ scan.opened = {k \in Openable(scan.devs) : k <= scan.idx})
  /\ [](pc = "scan" =>
          /\ scan.idx >= 1
          /\ \A j \in Usable(scan.devs) : scan.idx <= j
          /\ scan.opened = {k \in Openable(scan.devs) : k < scan.idx}
          /\ ~handle_open)
  /\ [](pc = "not_found" =>
          /\ Usable(scan.devs) = {}
          /\ ~handle_open
          /\ \/ scan = NoScan
             \/ /\ scan.idx = Len(scan.devs) + 1
                /\ scan.opened = Openable(scan.devs))
  /\ [][pc = "open_device" /\ scan' = NoScan => pc' = "not_found"]_vars

C17_Witness ==
  /\ pc = "opened"
  /\ Len(scan.devs) = 2
  /\ scan.idx = 2
  /\ scan.opened = {1, 2}
  /\ ~scan.devs[1].open_ok

\* Positions of read_device before the endpoint search has answered
BeforeResolved ==
  {"main", "open_device", "scan", "opened", "not_found", "reset", "read_languages",
   "active_configuration", "read_strings", "find_endpoint"}

\* C18: the session's steps come in the order locate device, resolve
\* endpoint, query/detach kernel driver, configure, poll. A control
\* transfer is issued only after configure_endpoint succeeded, and
\* configuration is attempted only after an inbound endpoint was resolved
\* on an opened device and the kernel driver was queried; with no inbound
\* endpoint there is no kernel-driver call, no configuration and no
\* transfer, ever.
C18_SessionOrder ==
  /\ (tick # <<>> \/ pc \in LoopPcs) =>
       /\ ConfigureSucceeded
       /\ Len(ConfigSteps) = 3
  /\ ConfigSteps # <<>> =>
       /\ endpoint # None
       /\ calls[1].op = "kernel_driver_active"
       /\ \A k \in CallsOf(ConfigOps) : k > 1
       /\ \A k \in CallsOf(ConfigOps), d \in DetachCalls : d < k
  /\ pc \in BeforeResolved => (endpoint = None /\ calls = <<>> /\ tick = <<>>)
  /\ endpoint # None => (handle_open \/ pc = "exit")
  /\ handle_open => pc \notin {"main", "open_device", "scan", "not_found"}
  /\ pc = "kernel_driver" => (endpoint # None /\ calls = <<>>)
  /\ pc = "configure" => (calls # <<>> /\ ConfigSteps = <<>> /\ tick = <<>>)
  /\ endpoint = None =>
       /\ calls = <<>>
       /\ tick = <<>>
       /\ pc \notin LoopPcs \cup {"kernel_driver", "configure", "after_match"}

C18_Witness ==
  /\ pc = "return_ok"
  /\ endpoint = None
  /\ out = <<Msg("No readable control endpoint")>>
  /\ handle_open
  /\ calls = <<>>

\* C19: for all values of the bytes the decoder's 8-bit arithmetic does
\* not overflow and the shifted terms vanish: (b5 & 0x70) >> 7 and
\* (b5 & 0x0F) >> 7 are 0, so the raw wind is (b4 & 0x1F) << 3, a multiple
\* of 8 in 0..248 whatever byte 5 is, and the raw temperature is b6 & 0x7F
\* in 0..127, which bounds every printed temperature to -40.0 .. -27.3.
C19_ShiftedTermsVanish ==
  (pc = "poll_two" /\ Succeeded(1) /\ Len(out) = 1) =>
    /\ ShiftRight8(And8(buf[5], 112), 7) = 0
    /\ ShiftRight8(And8(buf[5], 15), 7) = 0
    /\ (buf[4] % 32) * 8 \in 0..255
    /\ out[1].wind_raw = (buf[4] % 32) * 8
    /\ out[1].wind_raw = ShiftLeft8(And8(buf[4], 31), 3)
    /\ out[1].wind_raw % 8 = 0
    /\ out[1].wind_raw \in 0..248
    /\ out[1].kind = "wind_temp_humidity" =>
         /\ out[1].temp_raw = buf[6] % 128
         /\ out[1].temp_raw = And8(buf[6], 127)
         /\ out[1].temp_raw \in 0..127
         /\ out[1].temp_x10 = out[1].temp_raw - 400
         /\ out[1].temp_x10 \in (0 - 400)..(0 - 273)

C19_Witness ==
  /\ pc = "poll_two"
  /\ Len(out) = 1
  /\ out[1].kind = "wind_temp_humidity"
  /\ buf[4] = 255
  /\ buf[5] = 127
  /\ buf[6] = 255
  /\ out[1].wind_raw = 248
  /\ out[1].temp_raw = 127
  /\ out[1].temp_x10 = 0 - 273

UnwrapPanic == <<Msg("called Result::unwrap() on an Err value")>>

\* The step after each of the three reads of read_device that use try!
AfterTry(p) ==
  CASE p = "reset" -> "read_languages"
    [] p = "read_languages" -> "active_configuration"
    [] p = "active_configuration" -> "read_strings"

\* What a step from the string reads does
StringsStep ==
  pc = "read_strings" =>
    /\ pc' = "find_endpoint"
    /\ exit_status' = "running"
    /\ handle_open'
    /\ IF languages > 0
         THEN /\ Len(out') = 3
              /\ out'[1].kind = "Manufacturer"
              /\ out'[2].kind = "Product"
              /\ out'[3].kind = "Serial Number"
              /\ \A k \in 1..3 : out'[k].value \in {"Some", "None"}
         ELSE out' = <<>>

\* What a step from one of the three reads under try! does
TryStep ==
  pc \in {"reset", "read_languages", "active_configuration"} =>
    \/ /\ pc' = AfterTry(pc)
       /\ exit_status' = "running"
       /\ handle_open'
    \/ /\ pc' = "exit"
       /\ exit_status' = "nonzero"
       /\ out' = UnwrapPanic

\* C20: during startup a failed read of the manufacturer, product or serial
\* string is printed as absent and startup goes on to the endpoint search
\* (and from there to configuration and polling); a failed device reset,
\* language read or active-configuration read ends the program with a
\* panic before any endpoint search, kernel-driver call or configuration.
C20_StartupErrors ==
  /\ [][StringsStep]_vars
  /\ [](pc = "find_endpoint" => ENABLED FindReadableEndpoint)
  /\ [][TryStep]_vars
  /\ []((pc = "exit" /\ out = UnwrapPanic) =>
          /\ exit_status = "nonzero"
          /\ endpoint = None
          /\ configs = <<>>
          /\ calls = <<>>
          /\ tick = <<>>
          /\ ~has_kernel_driver)

C20_Witness ==
  /\ pc = "find_endpoint"
  /\ Len(out) = 3
  /\ out[1].value = "None"
  /\ out[2].value = "Some"
  /\ out[3].value = "None"
  /\ exit_status = "running"

====
